---- MODULE Spec2Model ----
(***************************************************************************)
(* A model of the Omegle session client (omegletwist.OmegleBot) and of the *)
(* part of the IRC bridge (bridge.BridgeBotProtocol) that drives it.       *)
(*                                                                         *)
(* The client is single threaded: every public method and every Deferred   *)
(* callback chain runs to completion on the reactor thread.  Each action   *)
(* below is therefore one reactor turn: a call made by the bridge, or the  *)
(* delivery of one HTTP outcome together with every callback it fires.     *)
(* A turn is computed by threading a record s of all fields through        *)
(* operators that carry the names of the methods they model.               *)
(***************************************************************************)
EXTENDS Integers, Sequences, FiniteSets, Bags, TLC

VARIABLES
    status,          \* OmegleBot.status
    server,          \* OmegleBot.server
    id,              \* OmegleBot.id
    userAgent,       \* OmegleBot.userAgent
    challenge,       \* OmegleBot.challenge
    image,           \* OmegleBot.image
    lock,            \* OmegleBot.lock: [locked, waiting]
    autoconnect,     \* BridgeBotProtocol.autoconnect
    reqs,            \* the bag of outstanding getPage Deferreds; those with
                     \* st = "active" are the members of OmegleBot.activeRequests
    cancelMode,      \* when the transport runs the callbacks of a cancelled Deferred
    seq,             \* history: commands submitted/issued in the current Connected stretch
    last             \* history: what the last reactor turn did

vars == <<status, server, id, userAgent, challenge, image, lock, autoconnect,
          reqs, cancelMode, seq, last>>

(***************************************************************************)
(* Bounds of the model.                                                    *)
(***************************************************************************)
MaxReq == 3      \* outstanding tracked requests at any one time
MaxCmds == 2     \* commands submitted in one Connected stretch / queued on the lock
MaxBatch == 2    \* events in one long-poll response

(***************************************************************************)
(* Program constants.                                                      *)
(***************************************************************************)
DISCONNECTED == 0
CONNECTING == 1
WAITING == 2
CONNECTED == 3

None == "None"
SERVER == "http://front2.omegle.com/"
RECAPTCHA_PAGE == "http://www.google.com/recaptcha/api/noscript?"
\* the entry of _userAgents that random.choice returns in the runs explored
UserAgents == {"Mozilla/5.0 (X11; U; Linux i686; en-US; rv:1.9.2.10) Firefox/3.6.10"}
LockedUrls == {"send", "typing", "stoppedtyping"}

(***************************************************************************)
(* What the environment can supply.                                        *)
(***************************************************************************)
SessionIds == {"ABC123"}
Messages == {"hi"}
Solutions == {"xyz"}
Tokens == {"k1"}
Bodies == {"win", "fail"}

\* The image reference the recaptcha page serves for key k
\* (group 1 of _captchaImageRegex).
ImageFor(k) == IF k = "k1" THEN "img-k1" ELSE "img-other"

Ev(tag, params) == [tag |-> tag, params |-> params]
\* events whose handlers change the session
LifecycleEvents == {Ev(t, <<>>) : t \in {"waiting", "connected", "strangerDisconnected"}}
CaptchaEvents ==
    {Ev(t, <<k>>) : t \in {"recaptchaRequired", "recaptchaRejected"}, k \in Tokens}
\* events that only reach a bridge callback, and a tag with no handler
PassiveEvents ==
    {Ev(t, <<>>) : t \in {"typing", "stoppedTyping", "count"}}
    \cup {Ev("gotMessage", <<"hello">>)}
\* The batches of up to MaxBatch events of E.  A passive event leaves every
\* variable as it is wherever it stands in a batch, so it is delivered alone.
BatchesOf(E) ==
    UNION {[1..n -> E] : n \in 0..MaxBatch} \cup {<<e>> : e \in PassiveEvents}
\* a decoded long-poll body: JSON null, or a list of events
ResponsesOf(E) ==
    {[null |-> TRUE, events |-> <<>>]} \cup {[null |-> FALSE, events |-> b] : b \in BatchesOf(E)}

\* A Deferred returned by getPage.  st is "active" while it is in activeRequests,
\* "untracked" when it is pending outside the ledger and "cancelled" when it was
\* cancelled and its callbacks have not run yet.
Request(url, base, data, st) == [url |-> url, base |-> base, data |-> data, st |-> st]
One(q) == SetToBag({q})
Active(rs) == {q \in BagToSet(rs) : q.st = "active"}
Live(rs) == {q \in BagToSet(rs) : q.st \in {"active", "untracked"}}
Cancelled(rs) == {q \in BagToSet(rs) : q.st = "cancelled"}

\* A Failure: the request kind it belongs to and whether it is a CancelledError.
Failure(url, cancelled) == [of |-> url, cancelled |-> cancelled]

(***************************************************************************)
(* History bookkeeping (no counterpart in the program).                    *)
(***************************************************************************)
NoHistory(op, arg) ==
    [op |-> op,              \* the call made or the outcome delivered
     arg |-> arg,            \* the call's argument, or the url of the request that completed
     from |-> status,        \* status when the turn began
     out |-> None,           \* what the call returned or raised / what its Deferred received
     got |-> None,           \* the kind of body delivered: "null" or "batch" for a poll
     sent |-> <<>>,          \* the requests issued, in order
     cancelled |-> {},       \* the urls of the requests cancelled
     dropped |-> 0,          \* lock waiters discarded
     cb |-> 0,               \* invocations of the disconnect callback
     resets |-> 0,           \* disconnects that tore a session down
     errs |-> {},            \* Failures passed to onError
     cascade |-> {},         \* urls of cancelled requests whose callbacks tore a session down
     edges |-> {},           \* status changes <<old, new>>
     deadIssued |-> FALSE,   \* a command queued before a disconnect was issued
     orderBroken |-> FALSE,  \* a command was issued before an earlier one of its stretch
     skipped |-> 0,          \* commands granted the lock and not issued
     skippedOut |-> {}]      \* what the submitters of those commands received

Begin(op, arg, rnd) ==
    [status |-> status, server |-> server, id |-> id, userAgent |-> userAgent,
     challenge |-> challenge, image |-> image, lock |-> lock,
     autoconnect |-> autoconnect, reqs |-> reqs, cancelMode |-> cancelMode, seq |-> seq,
     last |-> NoHistory(op, arg), rand |-> rnd, overflow |-> FALSE]

Commit(s) ==
    /\ ~s.overflow
    /\ status' = s.status
    /\ server' = s.server
    /\ id' = s.id
    /\ userAgent' = s.userAgent
    /\ challenge' = s.challenge
    /\ image' = s.image
    /\ lock' = s.lock
    /\ autoconnect' = s.autoconnect
    /\ reqs' = s.reqs
    /\ cancelMode' = s.cancelMode
    /\ seq' = s.seq
    /\ last' = s.last

Returns(s, v) == [s EXCEPT !.last.out = v]

Aged(waiting, new, old) ==
    [i \in 1..Len(waiting) |->
        [waiting[i] EXCEPT !.age =
            IF new = DISCONNECTED THEN "dead"
            ELSE IF old = CONNECTED /\ new # CONNECTED /\ @ = "fresh" THEN "stale"
            ELSE @]]

\* self.status = new
SetStatus(s, new) ==
    [s EXCEPT !.status = new,
              !.last.edges = IF s.status # new THEN @ \cup {<<s.status, new>>} ELSE @,
              !.lock.waiting = Aged(@, new, s.status),
              !.seq = IF s.status = CONNECTED /\ new # CONNECTED
                      THEN [sub |-> 0, iss |-> 0] ELSE @]

(***************************************************************************)
(* OmegleBot.getPage: issue a request; when addToActive, track its         *)
(* Deferred in activeRequests (removeFromActive runs first on completion). *)
(* A relative url is prefixed with self.server when that is set.           *)
(***************************************************************************)
IsAbsolute(url) == url = RECAPTCHA_PAGE

getPage(s, url, addToActive, data) ==
    LET base == IF ~IsAbsolute(url) /\ s.server # None THEN s.server ELSE None
        s1 == [s EXCEPT !.last.sent = Append(@, [url |-> url, base |-> base, data |-> data])]
    IN  IF ~addToActive THEN s1
        ELSE IF BagCardinality(s1.reqs) >= MaxReq THEN [s1 EXCEPT !.overflow = TRUE]
        ELSE [s1 EXCEPT !.reqs = @ (+) One(Request(url, base, data, "active"))]

\* getPage.removeFromActive: the Deferred d = q has fired and leaves the ledger
removeFromActive(s, q) == [s EXCEPT !.reqs = @ (-) One(q)]

\* random.choice(_userAgents): the draw made for this reactor turn
getRandomUserAgent(s) == s.rand

\* the generator expression's value is dropped: the method returns None
_get_rand_id == None

\* a connect without the status guard
connect_Unguarded(s) ==
    LET s1 == [s EXCEPT !.userAgent = getRandomUserAgent(s)]
        s2 == SetStatus(s1, CONNECTING)
        s3 == [s2 EXCEPT !.server = SERVER]
    IN  Returns(getPage(s3, "start", TRUE, [randid |-> _get_rand_id]), "Deferred")

(***************************************************************************)
(* OmegleBot.connect, up to its yield on the start request.                *)
(***************************************************************************)
connect(s) ==
    IF s.status # DISCONNECTED THEN Returns(s, "AlreadyRunningError")
    ELSE LET s1 == [s EXCEPT !.userAgent = getRandomUserAgent(s)]
             s2 == SetStatus(s1, CONNECTING)
             s3 == [s2 EXCEPT !.server = SERVER]
         IN  Returns(getPage(s3, "start", TRUE, [randid |-> _get_rand_id]), "Deferred")

(***************************************************************************)
(* The bridge's callbacks.  Only disconnectCallback re-enters the client:  *)
(* with autoconnect set it runs the /connect command.  The others talk to  *)
(* IRC only.                                                               *)
(***************************************************************************)
disconnectCallback(s) ==
    LET s1 == [s EXCEPT !.last.cb = @ + 1]
    IN  IF s1.autoconnect THEN connect(s1) ELSE s1

\* OmegleBot.runCallback: every callback is set by the bridge
runCallback(s, callback) ==
    IF callback = "disconnectCallback" THEN disconnectCallback(s) ELSE s

onDisconnect(s) == runCallback(s, "disconnectCallback")

\* OmegleBot.onError: the error sink
onError(s, error) == [s EXCEPT !.last.errs = @ \cup {error}]

(***************************************************************************)
(* The DeferredLock and _doLockedCommand.                                  *)
(***************************************************************************)
RECURSIVE lock_release(_)

\* say.sentMessage applied to what the locked command's Deferred delivers
sentMessage(response) == IF response = "win" THEN "True" ELSE "SendError"

\* what the submitter of command c receives when the command's Deferred fires
\* with response: say chains sentMessage, typing and stoppedTyping chain nothing
Resolved(c, response) ==
    [url |-> c.url, out |-> IF c.url = "send" THEN sentMessage(response) ELSE response]

\* _doLockedCommand.gotLock for the command c that was granted the lock
gotLock(s, c) ==
    IF s.status = CONNECTED
    THEN LET s1 == getPage(s, c.url, TRUE, c.data)
         IN  [s1 EXCEPT
                !.last.deadIssued = @ \/ c.age = "dead",
                !.last.orderBroken = @ \/ (c.age = "fresh" /\ c.seq # s.seq.iss + 1),
                !.seq.iss = IF c.age = "fresh" THEN c.seq ELSE @]
    ELSE lock_release([s EXCEPT !.last.skipped = @ + 1,
                                !.last.skippedOut = @ \cup {Resolved(c, None)}])

\* a release that grants the lock to the newest waiter
lock_release_LIFO(s) ==
    LET w == s.lock.waiting
    IN  IF w # <<>>
        THEN gotLock([s EXCEPT !.lock = [locked |-> TRUE,
                                         waiting |-> SubSeq(w, 1, Len(w) - 1)]],
                     w[Len(w)])
        ELSE [s EXCEPT !.lock.locked = FALSE]

\* DeferredLock.release
lock_release(s) ==
    IF s.lock.waiting # <<>>
    THEN gotLock([s EXCEPT !.lock = [locked |-> TRUE, waiting |-> Tail(s.lock.waiting)]],
                 Head(s.lock.waiting))
    ELSE [s EXCEPT !.lock.locked = FALSE]

\* an acquire that never waits
lock_acquire_Unguarded(s, c) == gotLock([s EXCEPT !.lock.locked = TRUE], c)

\* DeferredLock.acquire followed by addCallback(gotLock)
lock_acquire(s, c) ==
    IF s.lock.locked
    THEN [s EXCEPT !.lock.waiting = Append(@, c)]
    ELSE gotLock([s EXCEPT !.lock.locked = TRUE], c)

_doLockedCommand(s, url, data) ==
    LET c == [url |-> url, data |-> data, seq |-> s.seq.sub + 1, age |-> "fresh"]
    IN  lock_acquire([s EXCEPT !.seq.sub = @ + 1], c)

\* a say without the status guard
say_Unguarded(s, message) ==
    Returns(_doLockedCommand(s, "send", [id |-> s.id, msg |-> message]), "Deferred")

say(s, message) ==
    IF s.status # CONNECTED THEN Returns(s, "NotConnectedError")
    ELSE Returns(_doLockedCommand(s, "send", [id |-> s.id, msg |-> message]), "Deferred")

typing(s) ==
    IF s.status # CONNECTED THEN Returns(s, "NotConnectedError")
    ELSE Returns(_doLockedCommand(s, "typing", [id |-> s.id]), None)

stoppedTyping(s) ==
    IF s.status # CONNECTED THEN Returns(s, "NotConnectedError")
    ELSE Returns(_doLockedCommand(s, "stoppedtyping", [id |-> s.id]), None)

\* a solveCaptcha that posts the challenge token
solveCaptcha_PostsToken(s, solution) ==
    IF s.challenge = None /\ s.image # None THEN Returns(s, "CaptchaNotRequired")
    ELSE LET s1 == getPage(s, "recaptcha", TRUE,
                           [id |-> s.id, response |-> solution, challenge |-> s.challenge])
         IN  Returns([s1 EXCEPT !.image = None, !.challenge = None], None)

(***************************************************************************)
(* OmegleBot.solveCaptcha.  The guard is `not self.challenge and           *)
(* self.image`: it raises only when challenge is unset and image is set.   *)
(***************************************************************************)
solveCaptcha(s, solution) ==
    IF s.challenge = None /\ s.image # None THEN Returns(s, "CaptchaNotRequired")
    ELSE LET s1 == getPage(s, "recaptcha", TRUE,
                           [id |-> s.id, response |-> solution, challenge |-> s.image])
         IN  Returns([s1 EXCEPT !.image = None, !.challenge = None], None)

(***************************************************************************)
(* Failure paths of the tracked Deferreds, and disconnect.                 *)
(***************************************************************************)
RECURSIVE disconnect(_)

\* a gotError that does not trap CancelledError
gotError_NoCancelCheck(s, error) == onError(disconnect(s), error)

\* doEvents.gotError
gotError(s, error) ==
    IF ~error.cancelled THEN onError(disconnect(s), error) ELSE s

\* doCaptcha.error
error(s, err) == disconnect(onError(s, err))

\* The errback chain of request q (already removed from the ledger) for Failure err.
errbackChain(s, q, err) ==
    LET s1 == CASE q.url = "start" -> Returns(s, "Failure")
                [] q.url = "events" -> Returns(gotError(s, err), None)
                [] q.url \in LockedUrls -> Returns(lock_release(s), "Failure")
                [] q.url = "recaptcha" -> Returns(s, "Failure")
                [] q.url = RECAPTCHA_PAGE -> Returns(error(s, err), None)
    IN  IF err.cancelled /\ s1.last.resets > s.last.resets
        THEN [s1 EXCEPT !.last.cascade = @ \cup {q.url}]
        ELSE s1

\* Deferred.cancel() on tracked request d: the Deferred fails with CancelledError
\* and the response is dropped.  Its callbacks run inside cancel() or, when the
\* transport holds the chain until the connection has closed, in a later turn.
cancel(s, d) ==
    LET s1 == [s EXCEPT !.last.cancelled = @ \cup {d.url}]
    IN  IF ~BagIn(d, s1.reqs) THEN s1
        ELSE IF s1.cancelMode = "immediate"
        THEN errbackChain(removeFromActive(s1, d), d, Failure(d.url, TRUE))
        ELSE [s1 EXCEPT !.reqs = (@ (-) One(d)) (+) One([d EXCEPT !.st = "cancelled"])]

\* for d in list(self.activeRequests): d.cancel()
RECURSIVE cancelEach(_, _)
cancelEach(s, ds) ==
    IF BagToSet(ds) = {} THEN s
    ELSE LET d == CHOOSE x \in BagToSet(ds) : TRUE
         IN  cancelEach(cancel(s, d), ds (-) One(d))

\* self.activeRequests.clear(): what is still pending is no longer tracked
clear(rs) ==
    LET keep == {q \in BagToSet(rs) : q.st # "active"}
        drop == Active(rs)
        kept == [q \in keep |-> rs[q]]
        loose == [q \in {[d EXCEPT !.st = "untracked"] : d \in drop} |->
                    rs[[q EXCEPT !.st = "active"]]]
    IN  kept (+) loose

\* a _cancelAllRequests that leaves the lock's waiters queued
_cancelAllRequests_KeepsWaiters(s) ==
    LET s2 == cancelEach(s, [d \in Active(s.reqs) |-> s.reqs[d]])
    IN  [s2 EXCEPT !.reqs = clear(@)]

_cancelAllRequests(s) ==
    LET s1 == [s EXCEPT !.lock.waiting = <<>>, !.last.dropped = @ + Len(s.lock.waiting)]
        s2 == cancelEach(s1, [d \in Active(s1.reqs) |-> s1.reqs[d]])
    IN  [s2 EXCEPT !.reqs = clear(@)]

\* a disconnect without the early return for a disconnected client
disconnect_NoEarlyReturn(s) ==
    LET s1 == IF s.status \in {WAITING, CONNECTED}
              THEN getPage(s, "disconnect", FALSE, [id |-> s.id])
              ELSE s
        s2 == SetStatus(s1, DISCONNECTED)
        s3 == [s2 EXCEPT !.id = None, !.challenge = None, !.server = None,
                         !.last.resets = @ + 1]
    IN  Returns(onDisconnect(_cancelAllRequests(s3)), None)

disconnect(s) ==
    LET s1 == IF s.status \in {WAITING, CONNECTED}
              THEN getPage(s, "disconnect", FALSE, [id |-> s.id])
              ELSE s
    IN  IF s1.status = DISCONNECTED THEN Returns(s1, None)
        ELSE LET s2 == SetStatus(s1, DISCONNECTED)
                 s3 == [s2 EXCEPT !.id = None, !.challenge = None, !.server = None,
                                  !.last.resets = @ + 1]
             IN  Returns(onDisconnect(_cancelAllRequests(s3)), None)

(***************************************************************************)
(* The long-poll loop and the event handlers.                              *)
(***************************************************************************)
doEvents(s) ==
    IF s.status \notin {CONNECTED, WAITING} THEN s
    ELSE getPage(s, "events", TRUE, [id |-> s.id])

EVENT_waiting(s, params) == runCallback(SetStatus(s, WAITING), "waitingCallback")

EVENT_connected(s, params) == runCallback(SetStatus(s, CONNECTED), "connectCallback")

EVENT_gotMessage(s, params) == runCallback(s, "messageCallback")

EVENT_typing(s, params) == runCallback(s, "typingCallback")

EVENT_stoppedTyping(s, params) == runCallback(s, "stoppedTypingCallback")

EVENT_strangerDisconnected(s, params) == disconnect(s)

\* getRecaptchaImage up to its yield, with doCaptcha's callbacks attached
doCaptcha(s, key) == getPage(s, RECAPTCHA_PAGE, TRUE, [k |-> key])

EVENT_recaptchaRequired(s, params) ==
    runCallback(doCaptcha([s EXCEPT !.challenge = params[1]], params[1]),
                "recaptchaRequiredCallback")

EVENT_recaptchaRejected(s, params) ==
    runCallback(doCaptcha([s EXCEPT !.challenge = params[1]], params[1]),
                "recaptchaFailedCallback")

\* getattr(self, 'EVENT_%s' % event, None), then the call when it is found
dispatch(s, event) ==
    CASE event.tag = "waiting" -> EVENT_waiting(s, event.params)
      [] event.tag = "connected" -> EVENT_connected(s, event.params)
      [] event.tag = "gotMessage" -> EVENT_gotMessage(s, event.params)
      [] event.tag = "typing" -> EVENT_typing(s, event.params)
      [] event.tag = "stoppedTyping" -> EVENT_stoppedTyping(s, event.params)
      [] event.tag = "strangerDisconnected" -> EVENT_strangerDisconnected(s, event.params)
      [] event.tag = "recaptchaRequired" -> EVENT_recaptchaRequired(s, event.params)
      [] event.tag = "recaptchaRejected" -> EVENT_recaptchaRejected(s, event.params)
      [] OTHER -> s

RECURSIVE dispatchAll(_, _)
dispatchAll(s, events) ==
    IF events = <<>> THEN s
    ELSE dispatchAll(dispatch(s, Head(events)), Tail(events))

\* a gotEvents that takes a null body for an empty batch
gotEvents_NullAsEmpty(s, response) ==
    IF response.null THEN doEvents(s)
    ELSE doEvents(dispatchAll(s, response.events))

\* doEvents.gotEvents; response is the decoded body: null, or a list of events
gotEvents(s, response) ==
    IF response.null THEN disconnect(s)
    ELSE doEvents(dispatchAll(s, response.events))

\* connect, resumed with the body of the start request
connectResume(s, body) ==
    LET s1 == [s EXCEPT !.id = body]
        s2 == SetStatus(s1, WAITING)
    IN  Returns(doEvents(s2), "(id, server)")

\* doCaptcha.gotImage
gotImage(s, r) == [s EXCEPT !.image = r]

\* releaseLock, then say's sentMessage when the command is a send
commandReplied(s, q, body) ==
    LET s1 == lock_release(s)
    IN  Returns(s1, IF q.url = "send" THEN sentMessage(body) ELSE None)

(***************************************************************************)
(* Initial state: OmegleBot.__init__ and the bridge's class attributes.    *)
(***************************************************************************)
Init ==
    /\ status = DISCONNECTED
    /\ server = None
    /\ id = None
    /\ userAgent = None
    /\ challenge = None
    /\ image = None
    /\ lock = [locked |-> FALSE, waiting |-> <<>>]
    /\ autoconnect = FALSE
    /\ reqs = EmptyBag
    /\ cancelMode \in {"immediate", "deferred"}
    /\ seq = [sub |-> 0, iss |-> 0]
    /\ last = NoHistory("init", None)

(***************************************************************************)
(* Calls made by the bridge's commands and by privmsg.                     *)
(***************************************************************************)
CanSubmit == status = CONNECTED => (seq.sub < MaxCmds /\ Len(lock.waiting) < MaxCmds)

Connect == \E ua \in UserAgents : Commit(connect(Begin("connect", None, ua)))

Disconnect == \E ua \in UserAgents : Commit(disconnect(Begin("disconnect", None, ua)))

Say == \E m \in Messages : CanSubmit /\ Commit(say(Begin("say", m, None), m))

Typing == CanSubmit /\ Commit(typing(Begin("typing", None, None)))

StoppedTyping == CanSubmit /\ Commit(stoppedTyping(Begin("stoppedTyping", None, None)))

SolveCaptcha == \E x \in Solutions : Commit(solveCaptcha(Begin("solveCaptcha", x, None), x))

\* the /popcorn and /unpopcorn commands: the client is not called
Popcorn == ~autoconnect /\ autoconnect' = TRUE /\ UNCHANGED <<status, server, id,
    userAgent, challenge, image, lock, reqs, cancelMode, seq, last>>

Unpopcorn == autoconnect /\ autoconnect' = FALSE /\ UNCHANGED <<status, server, id,
    userAgent, challenge, image, lock, reqs, cancelMode, seq, last>>

(***************************************************************************)
(* Outcomes delivered by the transport.                                    *)
(***************************************************************************)
Delivered(op, rnd, q) == removeFromActive(Begin(op, q.url, rnd), q)

StartSucceeds ==
    \E q \in Live(reqs), sid \in SessionIds :
        /\ q.url = "start"
        /\ Commit(connectResume(Delivered("startSucceeds", None, q), sid))

EventsArriveFrom(E) ==
    \E q \in Live(reqs), ua \in UserAgents, response \in ResponsesOf(E) :
        /\ q.url = "events"
        /\ LET s == gotEvents(Delivered("eventsArrive", ua, q), response)
           IN  Commit(Returns([s EXCEPT !.last.got = IF response.null THEN "null"
                                                     ELSE "batch"], None))

EventsArrive == EventsArriveFrom(LifecycleEvents \cup CaptchaEvents)

ChatEventsArrive == EventsArriveFrom(LifecycleEvents)

CommandReplied ==
    \E q \in Live(reqs), body \in Bodies :
        /\ q.url \in LockedUrls
        /\ Commit(commandReplied(Delivered("commandReplied", None, q), q, body))

RecaptchaReplied ==
    \E q \in Live(reqs) :
        /\ q.url = "recaptcha"
        /\ Commit(Delivered("recaptchaReplied", None, q))

\* getRecaptchaImage resumed with the page: the regex matches or ValueError is raised
ImagePageArrives ==
    \E q \in Live(reqs), ua \in UserAgents, match \in BOOLEAN :
        /\ q.url = RECAPTCHA_PAGE
        /\ LET s == Delivered("imagePageArrives", ua, q)
           IN  Commit(Returns(IF match THEN gotImage(s, ImageFor(q.data.k))
                              ELSE error(s, Failure(RECAPTCHA_PAGE, FALSE)),
                              None))

\* a connection failure, timeout or error status of any pending request
RequestFails ==
    \E q \in Live(reqs), ua \in UserAgents :
        Commit(errbackChain(Delivered("requestFails", ua, q), q, Failure(q.url, FALSE)))

\* the held-back callbacks of a cancelled request run
CancelDelivered ==
    \E q \in Cancelled(reqs), ua \in UserAgents :
        Commit(errbackChain(Delivered("cancelDelivered", ua, q), q, Failure(q.url, TRUE)))

(***************************************************************************)
(* Spec: the session life cycle, the long-poll loop with every event, the  *)
(* challenge workflow and the bridge's auto-reconnect.                     *)
(***************************************************************************)
Next ==
    \/ Connect
    \/ Disconnect
    \/ SolveCaptcha
    \/ Popcorn
    \/ Unpopcorn
    \/ StartSucceeds
    \/ EventsArrive
    \/ RecaptchaReplied
    \/ ImagePageArrives
    \/ RequestFails
    \/ CancelDelivered

Spec == Init /\ [][Next]_vars

(***************************************************************************)
(* SpecCommands: the session life cycle and the long-poll loop with the    *)
(* chat events, together with the serialized commands and solveCaptcha.    *)
(***************************************************************************)
NextCommands ==
    \/ Connect
    \/ Disconnect
    \/ Say
    \/ Typing
    \/ StoppedTyping
    \/ SolveCaptcha
    \/ StartSucceeds
    \/ ChatEventsArrive
    \/ CommandReplied
    \/ RecaptchaReplied
    \/ RequestFails
    \/ CancelDelivered

SpecCommands == Init /\ [][NextCommands]_vars

(***************************************************************************)
(* SpecSolve: the serialized commands together with the challenge          *)
(* workflow, for sessions that the remote side ends, on a transport that   *)
(* runs the callbacks of a cancelled request at once.                      *)
(***************************************************************************)
InitSolve == Init /\ cancelMode = "immediate"

NextSolve ==
    \/ Connect
    \/ Say
    \/ Typing
    \/ StoppedTyping
    \/ SolveCaptcha
    \/ StartSucceeds
    \/ EventsArrive
    \/ CommandReplied
    \/ RecaptchaReplied
    \/ ImagePageArrives

SpecSolve == InitSolve /\ [][NextSolve]_vars

(***************************************************************************)
(* Vocabulary of the properties.                                           *)
(***************************************************************************)
\* the step is a turn of the client that made call / delivered outcome op
ClientTurn(op) == last'.op = op /\ autoconnect' = autoconnect

Session == <<status, server, id, userAgent, challenge, image, lock, reqs>>

\* how many pending (not cancelled) requests have a url in urls
InFlight(urls) ==
    LET qs == {q \in Live(reqs) : q.url \in urls}
        RECURSIVE Sum(_)
        Sum(S) == IF S = {} THEN 0
                  ELSE LET q == CHOOSE x \in S : TRUE IN CopiesIn(q, reqs) + Sum(S \ {q})
    IN  Sum(qs)

Notices(sent) == SelectSeq(sent, LAMBDA r : r.url = "disconnect")
Reconnected(sent) == \E i \in 1..Len(sent) : sent[i].url = "start"
PollOrCommand == {"events"} \cup LockedUrls

(***************************************************************************)
(* C1.  After any call to disconnect() that returns (and whose callback    *)
(* did not reconnect), the status is Disconnected and the session id and   *)
(* the pending challenge are both null.                                    *)
(***************************************************************************)
C1_DisconnectLeavesNothing ==
    (last.op = "disconnect" /\ ~Reconnected(last.sent)) =>
        (status = DISCONNECTED /\ id = None /\ challenge = None)

(***************************************************************************)
(* C2.  The commands submitted while the status stays Connected are issued *)
(* once each, in submission order, and no two of them are in flight        *)
(* together: the issued ones are a prefix of the submitted ones, the rest  *)
(* wait in the lock's queue, and an idle lock means all were issued.       *)
(***************************************************************************)
FreshWaiting == Len(SelectSeq(lock.waiting, LAMBDA c : c.age = "fresh"))

C2_SaysInOrder ==
    /\ ~last.orderBroken
    /\ InFlight(LockedUrls) <= 1
    /\ seq.iss <= seq.sub
    /\ status = CONNECTED => seq.sub - seq.iss = FreshWaiting
    /\ (status = CONNECTED /\ ~lock.locked) => seq.iss = seq.sub

\* the second of two commands queued behind an earlier one has just been issued
C2_Witness ==
    /\ last.op = "commandReplied"
    /\ status = CONNECTED
    /\ last.from = CONNECTED
    /\ seq.sub = MaxCmds
    /\ seq.iss = MaxCmds
    /\ Len(last.sent) = 1
    /\ last.sent[1].url = "send"
    /\ InFlight({"send"}) = 1

(***************************************************************************)
(* C3.  A disconnect cancels every poll and command request in flight, and *)
(* the completion of a cancelled one never reaches onError and never tears *)
(* a session down.                                                         *)
(***************************************************************************)
C3_CancelsQuietly ==
    /\ \A e \in last.errs : e.cancelled => e.of \notin PollOrCommand
    /\ last.cascade \cap PollOrCommand = {}
    /\ (last.op = "disconnect" /\ last.resets > 0) => InFlight(PollOrCommand) = 0

\* a disconnect cancelled a poll and a send together
C3_Witness ==
    /\ last.op = "disconnect"
    /\ last.resets = 1
    /\ {"events", "send"} \subseteq last.cancelled
    /\ last.errs = {}

(***************************************************************************)
(* C4.  Whatever a poll's batch holds, the status only moves Disconnected  *)
(* -> Connecting -> Waiting <-> Connected, or from any status to           *)
(* Disconnected.                                                           *)
(***************************************************************************)
AllowedEdges ==
    {<<DISCONNECTED, CONNECTING>>, <<CONNECTING, WAITING>>,
     <<WAITING, CONNECTED>>, <<CONNECTED, WAITING>>}
    \cup {<<st, DISCONNECTED>> : st \in {CONNECTING, WAITING, CONNECTED}}

C4_StatusEdges == last.edges \subseteq AllowedEdges

(***************************************************************************)
(* C5.  The session id is non-null exactly when the status is Waiting or   *)
(* Connected.                                                              *)
(***************************************************************************)
C5_SessionIdIffActive == (id # None) <=> (status \in {WAITING, CONNECTED})

(***************************************************************************)
(* C6.  A solveCaptcha call made while no challenge is pending raises      *)
(* CaptchaNotRequired, issues no request and changes no state, whatever    *)
(* the image reference and the status are.                                 *)
(***************************************************************************)
C6_NoChallengeRaises ==
    [][(ClientTurn("solveCaptcha") /\ challenge = None) =>
          (/\ last'.out = "CaptchaNotRequired"
           /\ last'.sent = <<>>
           /\ UNCHANGED Session)]_vars

(***************************************************************************)
(* C7 as stated.  A solveCaptcha call made while a challenge is pending    *)
(* posts the session id, the solution and the pending challenge token.     *)
(***************************************************************************)
C7_PostsToken ==
    [][(ClientTurn("solveCaptcha") /\ challenge # None) =>
          (/\ Len(last'.sent) = 1
           /\ last'.sent[1].url = "recaptcha"
           /\ last'.sent[1].data = [id |-> id, response |-> last'.arg,
                                    challenge |-> challenge])]_vars

(***************************************************************************)
(* C7 amended.  A solveCaptcha call made while a challenge is pending      *)
(* posts the session id, the solution and, as the challenge field, the     *)
(* current image reference (null while the lookup has not completed); it   *)
(* clears the pending challenge and the image reference before the         *)
(* request completes, and the completion changes neither.                  *)
(***************************************************************************)
RecaptchaCompleted ==
    /\ last'.op \in {"recaptchaReplied", "requestFails", "cancelDelivered"}
    /\ last'.arg = "recaptcha"
    /\ autoconnect' = autoconnect

C7_PostsImageRef ==
    /\ [][(ClientTurn("solveCaptcha") /\ challenge # None) =>
             (/\ last'.out = None
              /\ last'.sent = <<[url |-> "recaptcha", base |-> server,
                                 data |-> [id |-> id, response |-> last'.arg,
                                           challenge |-> image]]>>
              /\ challenge' = None
              /\ image' = None
              /\ UNCHANGED <<status, id, server, lock>>)]_vars
    /\ [][RecaptchaCompleted => UNCHANGED <<challenge, image, status, id>>]_vars

\* a solution was posted for a challenge whose image had been looked up
C7_Witness ==
    /\ last.op = "solveCaptcha"
    /\ last.out = None
    /\ Len(last.sent) = 1
    /\ last.sent[1].data.challenge = ImageFor("k1")
    /\ challenge = None
    /\ image = None

(***************************************************************************)
(* C8 as stated.  A recaptcha-submit posted for a pending challenge is     *)
(* never in flight together with a send, typing or stoppedTyping request.  *)
(***************************************************************************)
SubmitsInFlight ==
    {q \in Live(reqs) : q.url = "recaptcha" /\ q.data.challenge # None}

C8_OneOutbound == SubmitsInFlight # {} => InFlight(LockedUrls) = 0

(***************************************************************************)
(* C8 amended.  At most one send, typing or stoppedTyping request is in    *)
(* flight at any time, and the lock is held while it is; a recaptcha-      *)
(* submit does not go through the lock and may overlap one of them.        *)
(***************************************************************************)
C8_CommandsSerialized ==
    /\ InFlight(LockedUrls) <= 1
    /\ InFlight(LockedUrls) = 1 => lock.locked

\* a recaptcha-submit overlaps a command while another command waits for the lock
C8_Witness ==
    /\ SubmitsInFlight # {}
    /\ InFlight(LockedUrls) = 1
    /\ lock.waiting # <<>>

(***************************************************************************)
(* C9.  A command that was waiting for the lock when its session was       *)
(* disconnected is never issued afterwards.                                *)
(***************************************************************************)
C9_NoDeadCommand == ~last.deadIssued

\* a disconnect discarded waiting commands
C9_Witness ==
    /\ last.op = "disconnect"
    /\ last.resets = 1
    /\ last.dropped > 0

(***************************************************************************)
(* C10.  Every disconnect that starts from a status other than             *)
(* Disconnected invokes the disconnect callback exactly once; a            *)
(* disconnect() call on a Disconnected client changes nothing, issues and  *)
(* cancels nothing and invokes no callback; the /disconnect notice is sent *)
(* exactly when the call starts from Waiting or Connected, and carries the *)
(* session id held at that moment.                                         *)
(***************************************************************************)
C10_DisconnectIdempotent ==
    /\ [](last.cb = last.resets)
    /\ [][ClientTurn("disconnect") =>
             IF status = DISCONNECTED
             THEN /\ UNCHANGED Session
                  /\ last'.sent = <<>>
                  /\ last'.cancelled = {}
                  /\ last'.cb = 0
             ELSE /\ last'.cb = 1
                  /\ Notices(last'.sent) =
                        IF status \in {WAITING, CONNECTED}
                        THEN <<[url |-> "disconnect", base |-> server,
                                data |-> [id |-> id]]>>
                        ELSE <<>>]_vars

\* a disconnect of a Connected session: one callback, one notice with the session id
C10_Witness ==
    /\ last.op = "disconnect"
    /\ last.from = CONNECTED
    /\ last.cb = 1
    /\ Len(Notices(last.sent)) = 1
    /\ Notices(last.sent)[1].data.id \in SessionIds

(***************************************************************************)
(* C11.  Whenever a poll is pending, a response that decodes to null has   *)
(* the same effect as the batch holding one strangerDisconnected event:    *)
(* one disconnect tears the session down, the disconnect callback runs     *)
(* once, the status leaves Waiting/Connected and no further poll is        *)
(* issued.                                                                 *)
(***************************************************************************)
NullBody == [null |-> TRUE, events |-> <<>>]
StrangerLeft == [null |-> FALSE, events |-> <<Ev("strangerDisconnected", <<>>)>>]

C11_NullDisconnectsOnce ==
    \A q \in Live(reqs), ua \in UserAgents :
        q.url = "events" =>
            LET s == Delivered("eventsArrive", ua, q)
                a == gotEvents(s, NullBody)
            IN  /\ a = gotEvents(s, StrangerLeft)
                /\ a.last.resets = 1
                /\ a.last.cb = 1
                /\ a.status = IF autoconnect THEN CONNECTING ELSE DISCONNECTED
                /\ a.id = None
                /\ \A i \in 1..Len(a.last.sent) : a.last.sent[i].url # "events"

\* a null body has just ended a Connected session
C11_Witness ==
    /\ last.op = "eventsArrive"
    /\ last.got = "null"
    /\ last.from = CONNECTED
    /\ last.resets = 1
    /\ last.cb = 1
    /\ status = DISCONNECTED
    /\ InFlight({"events"}) = 0

(***************************************************************************)
(* C12.  A connect() call made while the status is Connecting, Waiting or  *)
(* Connected fails with AlreadyRunningError, issues no request and leaves  *)
(* status, id, server, user agent, challenge, image, lock and the request  *)
(* ledger unchanged.                                                       *)
(***************************************************************************)
C12_ConnectWhenActive ==
    [][(ClientTurn("connect") /\ status # DISCONNECTED) =>
          (/\ last'.out = "AlreadyRunningError"
           /\ last'.sent = <<>>
           /\ last'.cancelled = {}
           /\ UNCHANGED Session)]_vars

\* a connect() call was refused during a Connected session
C12_Witness ==
    /\ last.op = "connect"
    /\ last.from = CONNECTED
    /\ last.out = "AlreadyRunningError"
    /\ status = CONNECTED
    /\ id \in SessionIds

(***************************************************************************)
(* C13.  A say, typing or stoppedTyping call made while the status is not  *)
(* Connected fails with NotConnectedError, issues no request, leaves the   *)
(* lock and its wait queue alone and changes no session field.             *)
(***************************************************************************)
CommandCall ==
    \E op \in {"say", "typing", "stoppedTyping"} : ClientTurn(op)

C13_CommandWhenNotConnected ==
    [][(CommandCall /\ status # CONNECTED) =>
          (/\ last'.out = "NotConnectedError"
           /\ last'.sent = <<>>
           /\ last'.skipped = 0
           /\ UNCHANGED Session
           /\ UNCHANGED seq)]_vars

\* a say was refused in Waiting while an earlier command still holds the lock
C13_Witness ==
    /\ last.op = "say"
    /\ last.from = WAITING
    /\ last.out = "NotConnectedError"
    /\ lock.locked
    /\ InFlight(LockedUrls) = 1

(***************************************************************************)
(* C14.  A command that is granted the lock when the status is no longer   *)
(* Connected is not issued, the lock passes on at once, and its submitter  *)
(* receives a result that is neither success nor failure; a skipped say    *)
(* does not resolve to SendError.                                          *)
(***************************************************************************)
C14_SkippedIsNoOp ==
    \A r \in last.skippedOut : r.out \notin {"True", "SendError", "Failure"}

(***************************************************************************)
(* C15.  No Failure of a request cancelled by disconnect reaches onError,  *)
(* whatever the request: poll, command, session start, recaptcha-submit or *)
(* challenge-image lookup.                                                 *)
(***************************************************************************)
C15_CancelNotReported == \A e \in last.errs : ~e.cancelled

(***************************************************************************)
(* C16.  At most one long-poll request is in flight at any time, across    *)
(* disconnects and reconnects, also when the disconnect callback           *)
(* reconnects while a batch is being dispatched.                           *)
(***************************************************************************)
C16_OnePoll == InFlight({"events"}) <= 1

(***************************************************************************)
(* C17.  A failure of the session-start request fails connect()'s result, *)
(* issues no request (no poll, no retry) and leaves the status at          *)
(* Connecting with a null session id.                                      *)
(***************************************************************************)
C17_StartFailure ==
    [][(ClientTurn("requestFails") /\ last'.arg = "start") =>
          (/\ last'.out = "Failure"
           /\ last'.sent = <<>>
           /\ status' = CONNECTING
           /\ id' = None)]_vars

(***************************************************************************)
(* C18.  When the disconnect callback reconnects, the turn ends with the   *)
(* new connection attempt intact: status Connecting, the server and user   *)
(* agent set by connect, its start request pending and not cancelled, and  *)
(* no poll issued by the loop of the session that was torn down.           *)
(***************************************************************************)
C18_ReentrantConnect ==
    (last.resets > 0 /\ Reconnected(last.sent)) =>
        (/\ status = CONNECTING
         /\ id = None
         /\ server = SERVER
         /\ userAgent \in UserAgents
         /\ InFlight({"start"}) = 1
         /\ \A i \in 1..Len(last.sent) : last.sent[i].url # "events")

(***************************************************************************)
(* C19.  A say that waits for the lock is never lost: in every step it     *)
(* stays in the queue, or its request is issued, or its submitter receives *)
(* the result of a skipped command.  (What every run must satisfy for each *)
(* accepted say to complete.)                                              *)
(***************************************************************************)
StillHeld(c) ==
    \/ \E j \in 1..Len(lock'.waiting) :
          /\ lock'.waiting[j].url = c.url
          /\ lock'.waiting[j].data = c.data
          /\ lock'.waiting[j].seq = c.seq
    \/ \E j \in 1..Len(last'.sent) :
          /\ last'.sent[j].url = c.url
          /\ last'.sent[j].data = c.data
    \/ \E r \in last'.skippedOut : r.url = c.url

C19_QueuedSayCompletes ==
    [][\A i \in 1..Len(lock.waiting) :
          lock.waiting[i].url = "send" => StillHeld(lock.waiting[i])]_vars

(***************************************************************************)
(* C20.  In every reachable state the stored image reference is non-null   *)
(* only while a challenge is pending, and it is then the reference         *)
(* resolved for the pending challenge token.                               *)
(***************************************************************************)
C20_ChallengeConsistent ==
    image # None => (challenge # None /\ image = ImageFor(challenge))

====
